---- MODULE Spec2Model ----
(***************************************************************************)
(* A model of the respirometry pipeline of main.py: raw instrument exports *)
(* are read file by file, concatenated, melted into the long-form oxygen   *)
(* dataset, coerced, saved, and then regressed per (file, channel) over    *)
(* the light and dark windows into the reaction-rate table.                *)
(*                                                                         *)
(* Text is modelled at two levels.  File names are tuples of one-character *)
(* strings, because the code splits and indexes them.  Table cells are     *)
(* strings; the numeric cells are converted by an explicit parse table.    *)
(* A file's content is the tuple of its lines, each line the tuple of its  *)
(* tab-separated fields.                                                   *)
(***************************************************************************)
EXTENDS Integers, Sequences, FiniteSets, TLC

VARIABLES
  files,                  \* glob's enumeration: a sequence of [file_name, content]
  pc,                     \* position of main()
  i,                      \* number of files the for loop of main() has consumed
  frames,                 \* the list raw_data_all_files_df before pd.concat
  raw_data_all_files_df,  \* the concatenated wide table
  oxygen_data,            \* the long-form table
  unique_file_names,      \* get_reaction_rates_df: files still to process
  file_data,              \* rows of the current file
  unique_channels,        \* channels of the current file still to process
  conditions,             \* the current file's experiment conditions
  light_data,             \* the rows selected for the light regression
  dark_data,              \* the rows selected for the dark regression
  lists,                  \* the twelve parallel lists
  reaction_rates,         \* the rate table returned by get_reaction_rates_df
  written,                \* output artifacts written so far
  error                   \* the exception that ended the run, "" if none

vars == <<files, pc, i, frames, raw_data_all_files_df, oxygen_data,
          unique_file_names, file_data, unique_channels, conditions,
          light_data, dark_data, lists, reaction_rates, written, error>>

----------------------------------------------------------------------------
(* Bounds of the model *)

\* files in the input directory (multi-file runs)
MaxFiles == 2
\* data rows of a file in the window-coverage inputs
MaxRows == 4
\* data rows of a file in the sentinel-coverage inputs
MaxMaskRows == 2
\* tokens of a file name in the name-coverage inputs
MaxTokens == 4
\* lines around the header in the header-coverage inputs
MaxLines == 3

----------------------------------------------------------------------------
(* Generic helpers *)

Range(s) == {s[k] : k \in 1..Len(s)}

RECURSIVE Unique(_)
\* pandas unique(): the distinct values in order of first appearance
Unique(s) ==
  IF s = <<>> THEN <<>>
  ELSE <<Head(s)>> \o Unique(SelectSeq(Tail(s), LAMBDA v : v # Head(s)))

RECURSIVE Flat(_)
\* concatenation of a sequence of sequences
Flat(ss) == IF ss = <<>> THEN <<>> ELSE Head(ss) \o Flat(Tail(ss))

RECURSIVE SumSeq(_)
SumSeq(s) == IF s = <<>> THEN 0 ELSE Head(s) + SumSeq(Tail(s))

----------------------------------------------------------------------------
(* File names: str.split(" "), int() *)

RECURSIVE SplitFrom(_, _, _)
\* the tokens of s[k..] given the token cur accumulated so far
SplitFrom(s, k, cur) ==
  IF k > Len(s) THEN <<cur>>
  ELSE IF s[k] = " " THEN <<cur>> \o SplitFrom(s, k + 1, <<>>)
       ELSE SplitFrom(s, k + 1, Append(cur, s[k]))

\* file_name.split(" "): every single space separates, empty tokens are kept
Split(s) == SplitFrom(s, 1, <<>>)

RECURSIVE Join(_)
\* the file name made of the tokens, separated by single spaces
Join(toks) ==
  IF toks = <<>> THEN <<>>
  ELSE IF Len(toks) = 1 THEN toks[1]
       ELSE toks[1] \o <<" ">> \o Join(Tail(toks))

Digits == {"0", "1", "2", "3", "4", "5", "6", "7", "8", "9"}

DigitValue(c) ==
  CASE c = "0" -> 0 [] c = "1" -> 1 [] c = "2" -> 2 [] c = "3" -> 3
    [] c = "4" -> 4 [] c = "5" -> 5 [] c = "6" -> 6 [] c = "7" -> 7
    [] c = "8" -> 8 [] c = "9" -> 9

RECURSIVE DigitsValue(_)
DigitsValue(s) ==
  IF s = <<>> THEN 0
  ELSE 10 * DigitsValue(SubSeq(s, 1, Len(s) - 1)) + DigitValue(s[Len(s)])

\* the digits of an int() literal: an optional sign is stripped
Unsigned(s) == IF s # <<>> /\ s[1] \in {"+", "-"} THEN Tail(s) ELSE s

\* int(s) succeeds: an optional sign followed by one or more decimal digits
IsInt(s) == Unsigned(s) # <<>> /\ \A k \in 1..Len(Unsigned(s)) : Unsigned(s)[k] \in Digits

IntValue(s) ==
  IF s # <<>> /\ s[1] = "-" THEN 0 - DigitsValue(Unsigned(s)) ELSE DigitsValue(Unsigned(s))

NoConditions == [expreriment_date |-> <<>>, growth_irradiance |-> 0,
                 measurement_irradiance |-> 0, growth_phase |-> 0]

Raise(e) == [error |-> e, value |-> NoConditions]

\* the fixed lookup of the measurement irradiance tag
MeasurementIrradiance(tag) ==
  IF tag = <<"i", "n", "v", "i", "v", "o">> THEN 100
  ELSE IF tag = <<"m", "a", "x">> THEN 3000
       ELSE 0

\* a lookup that lets every tag through
AnyTag(tag) == TRUE

IsKnownTag(tag) == tag \in {<<"i", "n", "v", "i", "v", "o">>, <<"m", "a", "x">>}

\* the growth phase read from the third token
GrowthPhase(tok) == DigitValue(tok[2])

\* get_exp_conditions_from_file_name, statement by statement: the first
\* statement that raises decides the error
get_exp_conditions_from_file_name(file_name) ==
  LET split_file_name == Split(file_name)
      n == Len(split_file_name)
  IN  IF ~IsInt(split_file_name[1]) THEN Raise("ValueError")
      ELSE IF n < 2 THEN Raise("IndexError")
      ELSE IF ~IsKnownTag(split_file_name[2]) THEN Raise("ValueError")
      ELSE IF n < 3 \/ Len(split_file_name[3]) < 2 THEN Raise("IndexError")
      ELSE IF split_file_name[3][2] \notin Digits THEN Raise("ValueError")
      ELSE IF n < 4 THEN Raise("IndexError")
      ELSE [error |-> "",
            value |-> [expreriment_date |-> split_file_name[4],
                       growth_irradiance |-> IntValue(split_file_name[1]),
                       measurement_irradiance |-> MeasurementIrradiance(split_file_name[2]),
                       growth_phase |-> GrowthPhase(split_file_name[3])]]

----------------------------------------------------------------------------
(* FileIngestor: find_data_start_index, read_data, write_content, read_csv *)

\* the header signature, one element per tab-separated field
Signature == <<"Date", "Time (HH:MM:SS)", "Time (s)", "Comment", "Ch1", "Ch2", "Ch3", "Ch4">>

\* the columns of an export after the signature: four temperature channels
\* and the instrument-internal columns
TrailingColumns == 19

TemperatureHeader == <<"Ch1 T", "Ch2 T", "Ch3 T", "Ch4 T">>

Internal == [k \in 1..TrailingColumns |-> "internal"]

HeaderLine == Signature \o TemperatureHeader \o Internal

\* search_string in row, at the granularity of fields: the fields of the
\* search string occur consecutively in the row
Contains(search_string, row) ==
  \E k \in 0..(Len(row) - Len(search_string)) :
    SubSeq(row, k + 1, k + Len(search_string)) = search_string

RECURSIVE MatchingIndexes(_, _, _)
\* the 0-based indexes of the rows from position k on that contain the string
MatchingIndexes(content, search_string, k) ==
  IF k > Len(content) THEN <<>>
  ELSE (IF Contains(search_string, content[k]) THEN <<k - 1>> ELSE <<>>)
       \o MatchingIndexes(content, search_string, k + 1)

\* a search that rejects only a missing header and takes the first of several
find_data_start_index_first(content, search_string) ==
  LET indexes == MatchingIndexes(content, search_string, 1)
  IN  IF Len(indexes) = 0 THEN [error |-> "ValueError", value |-> 0]
      ELSE [error |-> "", value |-> indexes[1]]

find_data_start_index(content, search_string) ==
  LET indexes == MatchingIndexes(content, search_string, 1)
  IN  IF Len(indexes) # 1 THEN [error |-> "ValueError", value |-> 0]
      ELSE [error |-> "", value |-> indexes[1]]

\* read_data: the lines from the header on, without the last line.  The
\* replacement of tabs by commas does not change the tuple of fields.
read_data(content) ==
  LET data_start_index == find_data_start_index(content, Signature)
  IN  IF data_start_index.error # "" THEN [error |-> data_start_index.error, value |-> <<>>]
      ELSE LET trimmed == SubSeq(content, data_start_index.value + 1, Len(content))
           IN  [error |-> "", value |-> SubSeq(trimmed, 1, Len(trimmed) - 1)]

\* write_content followed by pd.read_csv: the first line names the columns,
\* every other line is a row prefixed with the file name
read_csv(content, file_name) ==
  [columns |-> <<"file_name">> \o content[1],
   rows |-> [k \in 1..(Len(content) - 1) |-> <<file_name>> \o content[k + 1]]]

\* positions of the columns kept by data.iloc[:, :-19].drop(columns=["Comment"])
KeptColumns(columns) ==
  SelectSeq([k \in 1..(Len(columns) - TrailingColumns) |-> k],
            LAMBDA k : columns[k] # "Comment")

\* a row under the twelve canonical column names
CanonicalRow(row, kept) ==
  [file_name |-> row[kept[1]], date |-> row[kept[2]], time |-> row[kept[3]],
   elapsed_time |-> row[kept[4]],
   O2 |-> <<row[kept[5]], row[kept[6]], row[kept[7]], row[kept[8]]>>,
   temperature |-> <<row[kept[9]], row[kept[10]], row[kept[11]], row[kept[12]]>>]

\* the body of the for loop of main() for one file
IngestFile(file_name, text) ==
  LET content == read_data(text)
  IN  IF content.error # "" THEN [error |-> content.error, value |-> <<>>]
      ELSE IF content.value = <<>> THEN [error |-> "EmptyDataError", value |-> <<>>]
      ELSE LET data == read_csv(content.value, file_name)
               kept == KeptColumns(data.columns)
           IN  IF \A k \in 1..(Len(data.columns) - TrailingColumns) : data.columns[k] # "Comment"
                 THEN [error |-> "KeyError", value |-> <<>>]
               ELSE IF Len(kept) # 12 THEN [error |-> "ValueError", value |-> <<>>]
               ELSE [error |-> "",
                     value |-> [k \in 1..Len(data.rows) |-> CanonicalRow(data.rows[k], kept)]]

----------------------------------------------------------------------------
(* Reshaper: flatten_data, pd.to_numeric *)

Channels == <<1, 2, 3, 4>>

TemperatureColumns == <<"Ch1_temperature", "Ch2_temperature", "Ch3_temperature", "Ch4_temperature">>

Sentinel == "---"

\* first melt: one block of rows per oxygen column, the rows of a block in
\* the order of the wide table
MeltOxygen(df) ==
  Flat([c \in 1..Len(Channels) |->
         [k \in 1..Len(df) |->
            [file_name |-> df[k].file_name, date |-> df[k].date, time |-> df[k].time,
             elapsed_time |-> df[k].elapsed_time, temperature |-> df[k].temperature,
             channel |-> Channels[c], O2 |-> df[k].O2[Channels[c]]]]])

\* second melt: one block of rows per temperature column
MeltTemperature(df) ==
  Flat([v \in 1..Len(TemperatureColumns) |->
         [k \in 1..Len(df) |->
            [file_name |-> df[k].file_name, date |-> df[k].date, time |-> df[k].time,
             elapsed_time |-> df[k].elapsed_time, O2 |-> df[k].O2,
             channel |-> df[k].channel, variable |-> TemperatureColumns[v],
             temperature |-> df[k].temperature[v]]]])

\* a filter that keeps every row
KeepAll(df) == df

\* merged_data[merged_data['[O2]'] != "---"]
DropSentinel(df) == SelectSeq(df, LAMBDA r : r.O2 # Sentinel)

\* merged_data.drop(columns=["variable"])
DropVariable(df) ==
  [k \in 1..Len(df) |->
     [file_name |-> df[k].file_name, date |-> df[k].date, time |-> df[k].time,
      elapsed_time |-> df[k].elapsed_time, O2 |-> df[k].O2,
      channel |-> df[k].channel, temperature |-> df[k].temperature]]

flatten_data(df) == DropVariable(DropSentinel(MeltTemperature(MeltOxygen(df))))

\* the numeric texts of the model and their values
NumericValue ==
  ("0" :> 0) @@ ("1" :> 1) @@ ("2" :> 2) @@ ("3" :> 3) @@ ("5" :> 5) @@ ("7" :> 7)
  @@ ("9" :> 9) @@ ("10" :> 10) @@ ("30" :> 30) @@ ("50" :> 50) @@ ("51" :> 51)
  @@ ("69" :> 69) @@ ("70" :> 70) @@ ("150" :> 150) @@ ("230" :> 230) @@ ("231" :> 231)

IsNumeric(text) == text \in DOMAIN NumericValue

\* pd.to_numeric of the two numeric columns
to_numeric(df) ==
  [k \in 1..Len(df) |->
     [df[k] EXCEPT !.elapsed_time = NumericValue[df[k].elapsed_time],
                   !.O2 = NumericValue[df[k].O2]]]

----------------------------------------------------------------------------
(* RateEstimator and Aggregator: get_reaction_rates_df, add_to_lists *)

\* the light window with its upper bound left out
InLightWindowOpen(t) == t >= 10 /\ t < 50

\* the light window, both bounds inclusive
InLightWindow(t) == t >= 10 /\ t <= 50

\* the dark window, both bounds inclusive
InDarkWindow(t) == t >= 70 /\ t <= 230

ChannelData(df, channel) == SelectSeq(df, LAMBDA r : r.channel = channel)

LightData(channel_data) == SelectSeq(channel_data, LAMBDA r : InLightWindow(r.elapsed_time))

DarkData(channel_data) == SelectSeq(channel_data, LAMBDA r : InDarkWindow(r.elapsed_time))

\* merged_data.xs(file_name): the rows of the file, in order
FileData(df, file_name) == SelectSeq(df, LAMBDA r : r.file_name = file_name)

Column(df, Field(_)) == [k \in 1..Len(df) |-> Field(df[k])]

NaN == <<0, 0>>

\* closed-form least squares over the samples.  Slope and intercept are
\* exact fractions <<numerator, denominator>>; r_value is kept as the
\* fraction r^2; p_value and std_err are kept as the degrees of freedom
\* they are computed from.
LeastSquares(x, y) ==
  LET n   == Len(x)
      Sx  == SumSeq(x)
      Sy  == SumSeq(y)
      Sxx == SumSeq([k \in 1..n |-> x[k] * x[k]])
      Sxy == SumSeq([k \in 1..n |-> x[k] * y[k]])
      Syy == SumSeq([k \in 1..n |-> y[k] * y[k]])
      ssxm  == n * Sxx - Sx * Sx
      ssxym == n * Sxy - Sx * Sy
      ssym  == n * Syy - Sy * Sy
  IN  [slope |-> <<ssxym, ssxm>>,
       intercept |-> <<Sy * Sxx - Sx * Sxy, ssxm>>,
       r_value |-> <<ssxym * ssxym, ssxm * ssym>>,
       p_value |-> <<n - 2>>,
       std_err |-> <<n - 2>>]

NaNResult == [slope |-> NaN, intercept |-> NaN, r_value |-> NaN,
              p_value |-> NaN, std_err |-> NaN]

\* scipy.stats.linregress: the outcomes a call can have.  Empty input is
\* rejected.  Identical x values are rejected by the releases that check
\* for them and yield NaN in the others.
linregress(x, y) ==
  IF Len(x) = 0 THEN {[error |-> "ValueError", value |-> NaNResult]}
  ELSE IF \A k \in 1..Len(x) : x[k] = x[1]
         THEN IF Len(x) = 1 THEN {[error |-> "", value |-> NaNResult]}
              ELSE {[error |-> "ValueError", value |-> NaNResult],
                    [error |-> "", value |-> NaNResult]}
       ELSE {[error |-> "", value |-> LeastSquares(x, y)]}

Regress(data) ==
  linregress(Column(data, LAMBDA r : r.elapsed_time), Column(data, LAMBDA r : r.O2))

EmptyLists ==
  [file_names |-> <<>>, expreriment_dates |-> <<>>, growth_irradiances |-> <<>>,
   measurement_irradiances |-> <<>>, growth_phases |-> <<>>, chanels |-> <<>>,
   reaction_rates |-> <<>>, intercepts |-> <<>>, r_values |-> <<>>,
   p_values |-> <<>>, std_errs |-> <<>>, is_in_lights |-> <<>>]

add_to_lists(ls, file_name, cond, channel, result, is_in_light) ==
  [file_names |-> Append(ls.file_names, file_name),
   expreriment_dates |-> Append(ls.expreriment_dates, cond.expreriment_date),
   growth_irradiances |-> Append(ls.growth_irradiances, cond.growth_irradiance),
   measurement_irradiances |-> Append(ls.measurement_irradiances, cond.measurement_irradiance),
   growth_phases |-> Append(ls.growth_phases, cond.growth_phase),
   chanels |-> Append(ls.chanels, channel),
   reaction_rates |-> Append(ls.reaction_rates, result.slope),
   intercepts |-> Append(ls.intercepts, result.intercept),
   r_values |-> Append(ls.r_values, result.r_value),
   p_values |-> Append(ls.p_values, result.p_value),
   std_errs |-> Append(ls.std_errs, result.std_err),
   is_in_lights |-> Append(ls.is_in_lights, is_in_light)]

\* the two appends in the other order
AddGroupDarkFirst(ls, file_name, cond, channel, light, dark) ==
  add_to_lists(add_to_lists(ls, file_name, cond, channel, dark, "No"),
               file_name, cond, channel, light, "Yes")

\* the two appends of one (file, channel) group: light first, then dark
AddGroup(ls, file_name, cond, channel, light, dark) ==
  add_to_lists(add_to_lists(ls, file_name, cond, channel, light, "Yes"),
               file_name, cond, channel, dark, "No")

\* pd.DataFrame of the twelve lists, under the column names of the rate table
DataFrame(ls) ==
  [file_name |-> ls.file_names, date |-> ls.expreriment_dates,
   is_in_light |-> ls.is_in_lights, growth_phase |-> ls.growth_phases,
   growth_irradiance |-> ls.growth_irradiances,
   measurement_irradiance |-> ls.measurement_irradiances,
   chanel |-> ls.chanels, reaction_rate |-> ls.reaction_rates,
   intercept |-> ls.intercepts, r_value |-> ls.r_values,
   p_value |-> ls.p_values, std_err |-> ls.std_errs]

NoTable == DataFrame(EmptyLists)

----------------------------------------------------------------------------------------------------------------------------------------
(* The input directories of the model *)

RECURSIVE SortedSeq(_)
\* the elements of a set of integers in increasing order
SortedSeq(S) ==
  IF S = {} THEN <<>>
  ELSE LET m == CHOOSE x \in S : \A y \in S : x <= y
       IN  <<m>> \o SortedSeq(S \ {m})

SeqsUpTo(S, n) == UNION {[1..k -> S] : k \in 0..n}

\* the clock time of the k-th sample of an export
ClockText == <<"00:00:01", "00:00:02", "00:00:03", "00:00:04", "00:00:05", "00:00:06">>

DataLine(time, elapsed, O2, temperature) ==
  <<"2023-01-01", time, elapsed, "">> \o O2 \o temperature \o Internal

\* the line after the last newline of an export
BlankLine == <<"">>

JunkLine == <<"# instrument settings">>

\* a header line with one more column in front of the signature
ShiftedHeaderLine == <<"Index">> \o HeaderLine

Export(rows) == <<JunkLine, HeaderLine>> \o rows \o <<BlankLine>>

Temperatures == <<"20.1", "20.2", "20.3", "20.4">>

SameTemperatures == <<"20.0", "20.0", "20.0", "20.0">>

OxygenOdd == <<"1", "2", "3", "5">>

OxygenEven == <<"2", "3", "5", "7">>

Oxygen(k) == IF k % 2 = 1 THEN OxygenOdd ELSE OxygenEven

\* data rows sampled at the given elapsed times, every channel numeric
RowsAt(times) ==
  [k \in 1..Len(times) |-> DataLine(ClockText[k], times[k], Oxygen(k), Temperatures)]

FullTimes == <<"10", "50", "70", "230">>

Name200InvivoP1 == <<"2", "0", "0", " ", "i", "n", "v", "i", "v", "o", " ", "p", "1", " ", "d", "1">>

Name50MaxP2 == <<"5", "0", " ", "m", "a", "x", " ", "p", "2", " ", "d", "2">>

Name200UnknownP1 == <<"2", "0", "0", " ", "u", "n", "k", "n", "o", "w", "n", " ", "p", "1", " ", "d", "1">>

\* exports of whole runs: complete, with missing cells, without header, with
\* two headers, with a cell that is no number, and without dark samples
GoodExport == Export(RowsAt(FullTimes))

SentinelExport ==
  Export([k \in 1..Len(FullTimes) |->
           DataLine(ClockText[k], FullTimes[k],
                    <<Oxygen(k)[1], IF k = 1 THEN Sentinel ELSE Oxygen(k)[2],
                      Oxygen(k)[3], Sentinel>>,
                    Temperatures)])

NoHeaderExport == <<JunkLine>> \o RowsAt(FullTimes) \o <<BlankLine>>

TwoHeaderExport == <<HeaderLine>> \o Export(RowsAt(FullTimes))

NonNumericExport ==
  Export(<<DataLine(ClockText[1], "10", <<"1", "n/a", "3", "5">>, Temperatures)>>)

LightOnlyExport == Export(RowsAt(<<"10", "50">>))

RunNames == {Name200InvivoP1, Name50MaxP2, Name200UnknownP1}

RunExports == {GoodExport, SentinelExport, NoHeaderExport, TwoHeaderExport,
               NonNumericExport, LightOnlyExport}

\* directories of up to MaxFiles files with distinct names, in any
\* enumeration order
RunInputs ==
  {fs \in SeqsUpTo([file_name : RunNames, content : RunExports], MaxFiles) :
     \A a, b \in 1..Len(fs) : a # b => fs[a].file_name # fs[b].file_name}

\* the elapsed times an export can be sampled at, in instrument order
SampleTimes == <<"0", "9", "10", "30", "50", "51", "69", "70", "150", "230", "231">>

\* one file sampled at up to MaxRows increasing elapsed times
WindowInputs ==
  {<<[file_name |-> Name200InvivoP1,
      content |-> Export(RowsAt([k \in 1..Cardinality(S) |-> SampleTimes[SortedSeq(S)[k]]]))]>> :
     S \in {T \in SUBSET (1..Len(SampleTimes)) : Cardinality(T) <= MaxRows}}

\* one file of up to MaxMaskRows rows with any pattern of missing cells
MaskTimes == <<"10", "50", "70", "230", "231", "231">>

MaskInputs ==
  {<<[file_name |-> Name200InvivoP1,
      content |-> Export([k \in 1..Len(m) |->
                            DataLine(ClockText[k], MaskTimes[k], m[k], t)])]>> :
     m \in SeqsUpTo([1..4 -> {Sentinel, "5"}], MaxMaskRows),
     t \in {Temperatures, SameTemperatures}}

\* the tokens a file name is made of, by position
TokenChoices(k) ==
  CASE k = 1 -> {<<"2", "0", "0">>, <<"-", "5">>, <<"x", "2">>, <<>>}
    [] k = 2 -> {<<"i", "n", "v", "i", "v", "o">>, <<"m", "a", "x">>,
                 <<"u", "n", "k", "n", "o", "w", "n">>, <<"M", "a", "x">>}
    [] k = 3 -> {<<"p", "1">>, <<"p", "2">>, <<"p", "3">>, <<"p">>, <<"p", "x">>, <<"1", "2">>}
    [] OTHER -> {<<"d", "1">>}

TokenSeqs ==
  UNION {{ts \in [1..n -> UNION {TokenChoices(k) : k \in 1..n}] :
            \A k \in 1..n : ts[k] \in TokenChoices(k)} : n \in 1..MaxTokens}

\* one complete export under every file name of up to MaxTokens tokens.  A
\* name that is empty or a bare number is left out: read_csv would not keep
\* it as text.
NameInputs ==
  {<<[file_name |-> Join(ts), content |-> GoodExport]>> :
     ts \in {us \in TokenSeqs : Join(us) # <<>> /\ ~IsInt(Join(us))}}

LineChoices == {HeaderLine, ShiftedHeaderLine, JunkLine,
                DataLine(ClockText[1], "10", OxygenOdd, Temperatures)}

\* one file of up to MaxLines lines, each a header, a shifted header, a
\* comment or a data row, and the closing blank line; comments precede the
\* header, so that every line read as a row has the fields of a row
HeaderInputs ==
  {<<[file_name |-> Name200InvivoP1, content |-> ls \o <<BlankLine>>]>> :
     ls \in {ms \in SeqsUpTo(LineChoices, MaxLines) :
               \A a, b \in 1..Len(ms) :
                 a < b /\ Contains(Signature, ms[a]) => ms[b] # JunkLine}}

Inputs == RunInputs \cup WindowInputs \cup MaskInputs \cup NameInputs \cup HeaderInputs

----------------
(* main() *)

Init ==
  /\ files \in Inputs
  /\ pc = "read"
  /\ i = 0
  /\ frames = <<>>
  /\ raw_data_all_files_df = <<>>
  /\ oxygen_data = <<>>
  /\ unique_file_names = <<>>
  /\ file_data = <<>>
  /\ unique_channels = <<>>
  /\ conditions = NoConditions
  /\ light_data = <<>>
  /\ dark_data = <<>>
  /\ lists = EmptyLists
  /\ reaction_rates = NoTable
  /\ written = {}
  /\ error = ""

Fail(e) == pc' = "failed" /\ error' = e

\* lines 29-53, a file whose header, columns and shape are accepted
ReadFile ==
  /\ pc = "read" /\ i < Len(files)
  /\ LET data == IngestFile(files[i + 1].file_name, files[i + 1].content)
     IN  /\ data.error = ""
         /\ frames' = Append(frames, data.value)
  /\ i' = i + 1
  /\ UNCHANGED <<files, pc, raw_data_all_files_df, oxygen_data, unique_file_names,
                 file_data, unique_channels, conditions, light_data, dark_data,
                 lists, reaction_rates, written, error>>

\* lines 29-53, a file that makes read_data or the column handling raise
ReadFileFails ==
  /\ pc = "read" /\ i < Len(files)
  /\ LET data == IngestFile(files[i + 1].file_name, files[i + 1].content)
     IN  /\ data.error # ""
         /\ Fail(data.error)
  /\ UNCHANGED <<files, i, frames, raw_data_all_files_df, oxygen_data,
                 unique_file_names, file_data, unique_channels, conditions,
                 light_data, dark_data, lists, reaction_rates, written>>

\* line 57
Concat ==
  /\ pc = "read" /\ i = Len(files) /\ frames # <<>>
  /\ raw_data_all_files_df' = Flat(frames)
  /\ pc' = "flatten"
  /\ UNCHANGED <<files, i, frames, oxygen_data, unique_file_names, file_data,
                 unique_channels, conditions, light_data, dark_data, lists,
                 reaction_rates, written, error>>

\* line 57 with no file in the directory: pd.concat rejects an empty list
ConcatFails ==
  /\ pc = "read" /\ i = Len(files) /\ frames = <<>>
  /\ Fail("ValueError")
  /\ UNCHANGED <<files, i, frames, raw_data_all_files_df, oxygen_data,
                 unique_file_names, file_data, unique_channels, conditions,
                 light_data, dark_data, lists, reaction_rates, written>>

\* line 59
FlattenData ==
  /\ pc = "flatten"
  /\ oxygen_data' = flatten_data(raw_data_all_files_df)
  /\ pc' = "to_numeric"
  /\ UNCHANGED <<files, i, frames, raw_data_all_files_df, unique_file_names,
                 file_data, unique_channels, conditions, light_data, dark_data,
                 lists, reaction_rates, written, error>>

AllNumeric(df) == \A k \in 1..Len(df) : IsNumeric(df[k].elapsed_time) /\ IsNumeric(df[k].O2)

\* lines 62-63
ToNumeric ==
  /\ pc = "to_numeric" /\ AllNumeric(oxygen_data)
  /\ oxygen_data' = to_numeric(oxygen_data)
  /\ pc' = "save_oxygen_data"
  /\ UNCHANGED <<files, i, frames, raw_data_all_files_df, unique_file_names,
                 file_data, unique_channels, conditions, light_data, dark_data,
                 lists, reaction_rates, written, error>>

\* the coercion failing after the dataset has been saved
ToNumericFailsAfterSave ==
  /\ pc = "to_numeric" /\ ~AllNumeric(oxygen_data)
  /\ Fail("ValueError")
  /\ written' = written \cup {"oxygen_data.xlsx"}
  /\ UNCHANGED <<files, i, frames, raw_data_all_files_df, oxygen_data,
                 unique_file_names, file_data, unique_channels, conditions,
                 light_data, dark_data, lists, reaction_rates>>

\* lines 62-63 with a cell that is not numeric
ToNumericFails ==
  /\ pc = "to_numeric" /\ ~AllNumeric(oxygen_data)
  /\ Fail("ValueError")
  /\ UNCHANGED <<files, i, frames, raw_data_all_files_df, oxygen_data,
                 unique_file_names, file_data, unique_channels, conditions,
                 light_data, dark_data, lists, reaction_rates, written>>

\* line 66
SaveOxygenData ==
  /\ pc = "save_oxygen_data"
  /\ written' = written \cup {"oxygen_data.xlsx"}
  /\ pc' = "rates"
  /\ UNCHANGED <<files, i, frames, raw_data_all_files_df, oxygen_data,
                 unique_file_names, file_data, unique_channels, conditions,
                 light_data, dark_data, lists, reaction_rates, error>>

\* lines 350-364
RatesStart ==
  /\ pc = "rates"
  /\ unique_file_names' = Unique(Column(oxygen_data, LAMBDA r : r.file_name))
  /\ lists' = EmptyLists
  /\ pc' = "rates_file"
  /\ UNCHANGED <<files, i, frames, raw_data_all_files_df, oxygen_data, file_data,
                 unique_channels, conditions, light_data, dark_data,
                 reaction_rates, written, error>>

\* lines 367-374 for the next file name
RatesFile ==
  /\ pc = "rates_file" /\ unique_file_names # <<>>
  /\ LET file_name == Head(unique_file_names)
         cond == get_exp_conditions_from_file_name(file_name)
     IN  /\ cond.error = ""
         /\ file_data' = FileData(oxygen_data, file_name)
         /\ unique_channels' = Unique(Column(file_data', LAMBDA r : r.channel))
         /\ conditions' = cond.value
  /\ pc' = "rates_channel"
  /\ UNCHANGED <<files, i, frames, raw_data_all_files_df, oxygen_data,
                 unique_file_names, light_data, dark_data, lists, reaction_rates,
                 written, error>>

\* lines 367-374 for a file name the condition extractor rejects
RatesFileFails ==
  /\ pc = "rates_file" /\ unique_file_names # <<>>
  /\ LET cond == get_exp_conditions_from_file_name(Head(unique_file_names))
     IN  /\ cond.error # ""
         /\ Fail(cond.error)
  /\ UNCHANGED <<files, i, frames, raw_data_all_files_df, oxygen_data,
                 unique_file_names, file_data, unique_channels, conditions,
                 light_data, dark_data, lists, reaction_rates, written>>

\* lines 377-415 for the next channel of the current file
RatesChannel ==
  /\ pc = "rates_channel"
  /\ LET channel == Head(unique_channels)
         channel_data == ChannelData(file_data, channel)
     IN  /\ light_data' = LightData(channel_data)
         /\ dark_data' = DarkData(channel_data)
         /\ \E light \in Regress(light_data'), dark \in Regress(dark_data') :
              /\ light.error = "" /\ dark.error = ""
              /\ lists' = AddGroup(lists, Head(unique_file_names), conditions,
                                   channel, light.value, dark.value)
  /\ unique_channels' = Tail(unique_channels)
  /\ IF unique_channels' = <<>>
       THEN pc' = "rates_file" /\ unique_file_names' = Tail(unique_file_names)
       ELSE UNCHANGED <<pc, unique_file_names>>
  /\ UNCHANGED <<files, i, frames, raw_data_all_files_df, oxygen_data, file_data,
                 conditions, reaction_rates, written, error>>

\* a channel loop that skips a group whose regression is rejected
RatesChannelSkips ==
  /\ pc = "rates_channel"
  /\ LET channel_data == ChannelData(file_data, Head(unique_channels))
     IN  /\ light_data' = LightData(channel_data)
         /\ dark_data' = DarkData(channel_data)
         /\ \E light \in Regress(light_data'), dark \in Regress(dark_data') :
              light.error # "" \/ dark.error # ""
  /\ unique_channels' = Tail(unique_channels)
  /\ IF unique_channels' = <<>>
       THEN pc' = "rates_file" /\ unique_file_names' = Tail(unique_file_names)
       ELSE UNCHANGED <<pc, unique_file_names>>
  /\ UNCHANGED <<files, i, frames, raw_data_all_files_df, oxygen_data, file_data,
                 conditions, lists, reaction_rates, written, error>>

\* lines 377-388 when one of the two regressions raises
RatesChannelFails ==
  /\ pc = "rates_channel"
  /\ LET channel_data == ChannelData(file_data, Head(unique_channels))
     IN  /\ light_data' = LightData(channel_data)
         /\ dark_data' = DarkData(channel_data)
         /\ \E light \in Regress(light_data') :
              \/ /\ light.error # ""
                 /\ Fail(light.error)
              \/ /\ light.error = ""
                 /\ \E dark \in Regress(dark_data') :
                      dark.error # "" /\ Fail(dark.error)
  /\ UNCHANGED <<files, i, frames, raw_data_all_files_df, oxygen_data,
                 unique_file_names, file_data, unique_channels, conditions,
                 lists, reaction_rates, written>>

\* lines 418-423
RatesReturn ==
  /\ pc = "rates_file" /\ unique_file_names = <<>>
  /\ reaction_rates' = DataFrame(lists)
  /\ pc' = "save_reaction_rates"
  /\ UNCHANGED <<files, i, frames, raw_data_all_files_df, oxygen_data,
                 unique_file_names, file_data, unique_channels, conditions,
                 light_data, dark_data, lists, written, error>>

\* line 75
SaveReactionRates ==
  /\ pc = "save_reaction_rates"
  /\ written' = written \cup {"reaction_rates.xlsx"}
  /\ pc' = "done"
  /\ UNCHANGED <<files, i, frames, raw_data_all_files_df, oxygen_data,
                 unique_file_names, file_data, unique_channels, conditions,
                 light_data, dark_data, lists, reaction_rates, error>>

Next ==
  \/ ReadFile \/ ReadFileFails \/ Concat \/ ConcatFails
  \/ FlattenData \/ ToNumeric \/ ToNumericFails \/ SaveOxygenData
  \/ RatesStart \/ RatesFile \/ RatesFileFails
  \/ RatesChannel \/ RatesChannelFails
  \/ RatesReturn \/ SaveReactionRates

Spec == Init /\ [][Next]_vars

----------------------------------------------------------------------------
(* Properties *)

\* the wide rows a long-form record can have come from: same file, same
\* clock time
Origins(rec) ==
  {k \in 1..Len(raw_data_all_files_df) :
     /\ raw_data_all_files_df[k].file_name = rec.file_name
     /\ raw_data_all_files_df[k].time = rec.time}

Flattened == pc \notin {"read", "flatten"}

\* C1: every record of the flattened table carries the temperature of its
\* sample at the temperature channel with the record's channel index
C1_TemperatureOfOwnChannel ==
  Flattened =>
    \A k \in 1..Len(oxygen_data) : \A o \in Origins(oxygen_data[k]) :
      oxygen_data[k].temperature =
        raw_data_all_files_df[o].temperature[oxygen_data[k].channel]

SentinelCells ==
  {c \in (1..Len(raw_data_all_files_df)) \X (1..4) :
     raw_data_all_files_df[c[1]].O2[c[2]] = Sentinel}

\* C2: N wide rows give 4N records minus the sentinel cells, at most 4N, and
\* never two records for the same sample and channel
C2_OneRecordPerCell ==
  Flattened =>
    /\ Len(oxygen_data) <= 4 * Len(raw_data_all_files_df)
    /\ Len(oxygen_data) = 4 * Len(raw_data_all_files_df) - Cardinality(SentinelCells)
    /\ \A a, b \in 1..Len(oxygen_data) :
         /\ a # b
         /\ oxygen_data[a].file_name = oxygen_data[b].file_name
         /\ oxygen_data[a].time = oxygen_data[b].time
         => oxygen_data[a].channel # oxygen_data[b].channel

\* the records of the (file, channel) group about to be regressed
CurrentGroup ==
  SelectSeq(oxygen_data, LAMBDA r : /\ r.file_name = Head(unique_file_names)
                                    /\ r.channel = Head(unique_channels))

\* C3: each step of the channel loop selects for the light regression exactly
\* the group's records with 10 <= t <= 50 and for the dark regression exactly
\* those with 70 <= t <= 230; no record is in both selections, and a record
\* outside both windows is in neither and stays in the dataset
C3_Windows ==
  [][pc = "rates_channel" =>
       /\ light_data' = SelectSeq(CurrentGroup, LAMBDA r : r.elapsed_time \in 10..50)
       /\ dark_data' = SelectSeq(CurrentGroup, LAMBDA r : r.elapsed_time \in 70..230)
       /\ Range(light_data') \cap Range(dark_data') = {}
       /\ \A r \in Range(CurrentGroup) :
            r.elapsed_time \notin (10..50) \cup (70..230) =>
              /\ r \notin Range(light_data') \cup Range(dark_data')
              /\ r \in Range(oxygen_data')]_vars

\* a group with samples on the edges of both windows and between them
C3_Witness ==
  /\ pc \in {"rates_channel", "rates_file", "failed"}
  /\ \E r \in Range(light_data) : r.elapsed_time = 50
  /\ \E r \in Range(dark_data) : r.elapsed_time = 70
  /\ \E r \in Range(file_data) : r.elapsed_time \in {51, 69}

\* the (file, channel) pairs present in the long-form table
Pairs == {<<oxygen_data[k].file_name, oxygen_data[k].channel>> : k \in 1..Len(oxygen_data)}

RatesReturned == pc \in {"save_reaction_rates", "done"}

\* C4: the returned rate table has, for every (file, channel) pair of the
\* dataset, one light record directly followed by one dark record, both with
\* the file's conditions and the channel, nothing else, and twelve columns
\* of length 2 x pairs
C4_OneRecordPerPhase ==
  RatesReturned =>
    LET t == reaction_rates
        n == 2 * Cardinality(Pairs)
    IN  /\ \A col \in DOMAIN t : Len(t[col]) = n
        /\ Cardinality(DOMAIN t) = 12
        /\ \A k \in 1..n : <<t.file_name[k], t.chanel[k]>> \in Pairs
        /\ \A p \in Pairs :
             \E k \in 1..(n - 1) :
               /\ {j \in 1..n : t.file_name[j] = p[1] /\ t.chanel[j] = p[2]} = {k, k + 1}
               /\ t.is_in_light[k] = "Yes" /\ t.is_in_light[k + 1] = "No"
               /\ \A j \in {k, k + 1} :
                    LET cond == get_exp_conditions_from_file_name(p[1]).value
                    IN  /\ t.date[j] = cond.expreriment_date
                        /\ t.growth_phase[j] = cond.growth_phase
                        /\ t.growth_irradiance[j] = cond.growth_irradiance
                        /\ t.measurement_irradiance[j] = cond.measurement_irradiance

\* a completed run over two files, one of them with a channel that has no data
C4_Witness ==
  /\ pc = "done"
  /\ Len(files) = 2
  /\ Cardinality(Pairs) = 7
  /\ Len(reaction_rates.file_name) = 14

\* the 1-based positions of the lines of a content that contain the signature
HeaderLines(content) == {k \in 1..Len(content) : Contains(Signature, content[k])}

\* C5: find_data_start_index returns the index of the header line exactly
\* when one line contains the signature; with zero or several such lines it
\* raises, the file contributes no rows and the run ends at that file
C5_UniqueHeader ==
  \A k \in 1..Len(files) :
    LET found == find_data_start_index(files[k].content, Signature)
        lines == HeaderLines(files[k].content)
    IN  /\ found.error = "" <=> Cardinality(lines) = 1
        /\ found.error = "" => lines = {found.value + 1}
        /\ Cardinality(lines) # 1 =>
             /\ i < k
             /\ Len(frames) < k
             /\ (i = k - 1 /\ pc # "read") => (pc = "failed" /\ error = "ValueError")

\* a run ended by a file with two header lines
C5_Witness ==
  /\ pc = "failed"
  /\ i < Len(files)
  /\ Cardinality(HeaderLines(files[i + 1].content)) = 2
  /\ Len(frames) = i

Invivo == <<"i", "n", "v", "i", "v", "o">>

Max == <<"m", "a", "x">>

\* the first token is an integer and the second a known tag
WellTagged(file_name) ==
  /\ IsInt(Split(file_name)[1])
  /\ Len(Split(file_name)) >= 2
  /\ Split(file_name)[2] \in {Invivo, Max}

\* C6: an accepted name has tag invivo with irradiance 100 or tag max with
\* irradiance 3000; a name whose first token is no integer or whose second
\* token is another tag is rejected without conditions, the run fails at it,
\* and no row of the rate lists carries any other irradiance
C6_FailFastTag ==
  /\ \A k \in 1..Len(files) :
       LET r == get_exp_conditions_from_file_name(files[k].file_name)
           toks == Split(files[k].file_name)
       IN  /\ r.error = "" =>
                \/ toks[2] = Invivo /\ r.value.measurement_irradiance = 100
                \/ toks[2] = Max /\ r.value.measurement_irradiance = 3000
           /\ ~WellTagged(files[k].file_name) => r.error # "" /\ r.value = NoConditions
  /\ \A k \in 1..Len(lists.file_names) :
       /\ WellTagged(lists.file_names[k])
       /\ lists.measurement_irradiances[k] =
            (IF Split(lists.file_names[k])[2] = Invivo THEN 100 ELSE 3000)
  /\ pc = "rates_channel" =>
       /\ WellTagged(Head(unique_file_names))
       /\ conditions.measurement_irradiance \in {100, 3000}
       /\ conditions.measurement_irradiance = 100 <=> Split(Head(unique_file_names))[2] = Invivo

\* a run ended by a file name with an unknown tag after an integer
C6_Witness ==
  /\ pc = "failed"
  /\ unique_file_names # <<>>
  /\ IsInt(Split(Head(unique_file_names))[1])
  /\ Len(Split(Head(unique_file_names))) >= 2
  /\ Split(Head(unique_file_names))[2] \notin {Invivo, Max}
  /\ conditions = NoConditions

\* C7 as stated: a run that ends in an error has written neither artifact
C7_NoArtifactOnError == pc = "failed" => written = {}

\* C7 amended: an error while reading or coercing leaves neither artifact;
\* an error during rate estimation leaves the dataset written and the rate
\* table not written
C7_NoRateTableOnError ==
  pc = "failed" =>
    /\ "reaction_rates.xlsx" \notin written
    /\ unique_file_names = <<>> => written = {}
    /\ unique_file_names # <<>> => written = {"oxygen_data.xlsx"}

\* a run ended by the rate estimation of its second file
C7_Witness ==
  /\ pc = "failed"
  /\ Len(unique_file_names) = 1
  /\ Len(files) = 2
  /\ lists.file_names # <<>>
  /\ written = {"oxygen_data.xlsx"}

Orderings(n) == {p \in [1..n -> 1..n] : \A a, b \in 1..n : a # b => p[a] # p[b]}

\* the long-form table of a run that enumerates the files in the order fs
TidyOf(fs) ==
  to_numeric(flatten_data(Flat([k \in 1..Len(fs) |->
                                  IngestFile(fs[k].file_name, fs[k].content).value])))

RECURSIVE GroupsOf(_, _)
\* the (file, channel) groups of a table in the order the loops visit them
GroupsOf(df, names) ==
  IF names = <<>> THEN <<>>
  ELSE LET channels == Unique(Column(FileData(df, Head(names)), LAMBDA r : r.channel))
       IN  [k \in 1..Len(channels) |-> <<Head(names), channels[k]>>]
           \o GroupsOf(df, Tail(names))

RateKeysOf(fs) ==
  GroupsOf(TidyOf(fs), Unique(Column(TidyOf(fs), LAMBDA r : r.file_name)))

\* C8: a completed run has the same dataset rows and the same sequence of
\* rate-table rows as a run over any other enumeration order of its files
C8_OrderIndependent ==
  pc = "done" =>
    \A p \in Orderings(Len(files)) :
      LET fs == [k \in 1..Len(files) |-> files[p[k]]]
      IN  /\ TidyOf(fs) = oxygen_data
          /\ RateKeysOf(fs) =
               [k \in 1..(Len(reaction_rates.file_name) \div 2) |->
                  <<reaction_rates.file_name[2 * k], reaction_rates.chanel[2 * k]>>]

\* C9: right after flatten_data no record holds the sentinel, every record
\* holds the oxygen cell of its sample and channel, and every cell that is
\* not the sentinel has a record
C9_SentinelFiltered ==
  /\ pc = "to_numeric" =>
       \A k \in 1..Len(oxygen_data) :
         /\ oxygen_data[k].O2 # Sentinel
         /\ \A o \in Origins(oxygen_data[k]) :
              oxygen_data[k].O2 = raw_data_all_files_df[o].O2[oxygen_data[k].channel]
  /\ Flattened =>
       \A c \in ((1..Len(raw_data_all_files_df)) \X (1..4)) \ SentinelCells :
         \E k \in 1..Len(oxygen_data) :
           /\ c[1] \in Origins(oxygen_data[k])
           /\ oxygen_data[k].channel = c[2]

\* a flattened table of a file with both missing and present cells
C9_Witness ==
  /\ pc = "to_numeric"
  /\ SentinelCells # {}
  /\ oxygen_data # <<>>
  /\ Len(oxygen_data) < 16 * Len(raw_data_all_files_df)

\* C10: the growth phase of accepted conditions, and so of every row of the
\* rate lists, is 1 or 2
C10_GrowthPhaseOneOrTwo ==
  /\ pc = "rates_channel" => conditions.growth_phase \in {1, 2}
  /\ \A k \in 1..Len(lists.growth_phases) : lists.growth_phases[k] \in {1, 2}

\* C11: every step of the channel loop regresses both windows whatever their
\* size: a step that does not fail has appended the light and the dark row,
\* a step with an empty window fails, and a failing step ends the run with
\* the regression's error, the lists of the groups done so far left behind
\* and no rate table returned or written
C11_DegenerateWindowAborts ==
  [][pc = "rates_channel" =>
       /\ (light_data' = <<>> \/ dark_data' = <<>>) => pc' = "failed"
       /\ pc' # "failed" =>
            /\ Len(lists'.file_names) = Len(lists.file_names) + 2
            /\ light_data' # <<>> /\ dark_data' # <<>>
       /\ pc' = "failed" =>
            /\ error' = "ValueError"
            /\ lists' = lists
            /\ reaction_rates' = NoTable
            /\ "reaction_rates.xlsx" \notin written']_vars

\* a run ended by an empty window after other groups had their rows appended
C11_Witness ==
  /\ pc = "failed"
  /\ error = "ValueError"
  /\ file_data # <<>>
  /\ light_data = <<>> \/ dark_data = <<>>
  /\ Len(lists.file_names) >= 2
  /\ reaction_rates = NoTable

====
